---- MODULE Spec2Model ----
(***************************************************************************)
(* Model of LightSensor.py: the LightSensor class that reads frames from   *)
(* an Arduino light sensor over a serial line, divides out the gain        *)
(* multiplier, keeps the samples of one acquisition run in five parallel   *)
(* lists, and computes averages and errors, optionally after subtracting   *)
(* a background baseline.                                                  *)
(*                                                                         *)
(* Numbers.  Python floats are modelled as exact numbers:                  *)
(*   k = "rat"    the rational n/d (d > 0, lowest terms)                   *)
(*   k = "sqrt"   the square root of the rational n/d                      *)
(*   k = "hyp"    the square root of n/d + qn/qd                           *)
(*   k = "nan"    the float NaN                                            *)
(* all of them records with the fields k, n, d, qn, qd.                    *)
(* Text.  A line of the serial stream is a sequence of one-character       *)
(* strings.                                                                *)
(***************************************************************************)
EXTENDS Integers, Sequences, FiniteSets, TLC

(***************************************************************************)
(* Bounds of the model.                                                    *)
(***************************************************************************)
MaxReads == 2        \* frame reads per acquisition run
MaxCalls == 2        \* acquisition runs (read, collectData, setBackground)
MaxDuration == 1     \* largest integratetime, in seconds
MaxFields == 5       \* fields of a line given to sensorRead alone

(***************************************************************************)
(* Exact arithmetic standing for Python's float arithmetic.                *)
(***************************************************************************)
Abs(x) == IF x < 0 THEN -x ELSE x

RECURSIVE GCD(_, _)
GCD(a, b) == IF b = 0 THEN a ELSE GCD(b, a % b)

\* n/d with the common factor g taken out
Reduced(n, d, g) ==
    [k |-> "rat", n |-> n \div g, d |-> d \div g, qn |-> 0, qd |-> 1]

Rat(n, d) == Reduced(n, d, GCD(Abs(n), d))

NaN == [k |-> "nan", n |-> 0, d |-> 1, qn |-> 0, qd |-> 1]

Zero == Rat(0, 1)

LCM(a, b) == (a \div GCD(a, b)) * b

\* x + y and x - y over the common denominator l
AddOver(x, y, l) == Rat(x.n * (l \div x.d) + y.n * (l \div y.d), l)

SubOver(x, y, l) == Rat(x.n * (l \div x.d) - y.n * (l \div y.d), l)

RAdd(x, y) == AddOver(x, y, LCM(x.d, y.d))

RSub(x, y) == SubOver(x, y, LCM(x.d, y.d))

\* x * y with the cross factors g1 and g2 taken out first
MulOver(x, y, g1, g2) ==
    Rat((x.n \div g1) * (y.n \div g2), (x.d \div g2) * (y.d \div g1))

RMul(x, y) == MulOver(x, y, GCD(Abs(x.n), y.d), GCD(Abs(y.n), x.d))

\* x / m for a positive integer m
DivOver(x, m, g) == Rat(x.n \div g, x.d * (m \div g))

RDivInt(x, m) == DivOver(x, m, GCD(Abs(x.n), m))

RECURSIVE RSum(_)
RSum(s) == IF s = <<>> THEN Zero ELSE RAdd(Head(s), RSum(Tail(s)))

\* the square root of a rational that is not negative
Sqrt(x) == [k |-> "sqrt", n |-> x.n, d |-> x.d, qn |-> 0, qd |-> 1]

\* the square of a rational or of the square root of a rational
Square(x) == IF x.k = "sqrt" THEN Rat(x.n, x.d) ELSE RMul(x, x)

\* np.sqrt(a ** 2 + b ** 2); the sum under the root is kept as its two terms
Hyp(a2, b2) == [k |-> "hyp", n |-> a2.n, d |-> a2.d, qn |-> b2.n, qd |-> b2.d]

Quadrature(a, b) ==
    IF a.k = "nan" \/ b.k = "nan" THEN NaN ELSE Hyp(Square(a), Square(b))

(***************************************************************************)
(* Text: str.rstrip(), str.split(sep = ' ') and int().                     *)
(***************************************************************************)
Digits == {"0", "1", "2", "3", "4", "5", "6", "7", "8", "9"}

Whitespace == {" ", "\n", "\r", "\t"}

DigitVal(c) ==
    CASE c = "0" -> 0 [] c = "1" -> 1 [] c = "2" -> 2 [] c = "3" -> 3
      [] c = "4" -> 4 [] c = "5" -> 5 [] c = "6" -> 6 [] c = "7" -> 7
      [] c = "8" -> 8 [] c = "9" -> 9

RECURSIVE rstrip(_)
rstrip(s) ==
    IF s # <<>> /\ s[Len(s)] \in Whitespace
    THEN rstrip(SubSeq(s, 1, Len(s) - 1))
    ELSE s

\* s.split(sep = ' '): every single space separates two fields, empty
\* fields are kept, and the empty string gives one empty field.
RECURSIVE split(_)
split(s) ==
    IF s = <<>> THEN << <<>> >>
    ELSE LET rest == split(Tail(s))
         IN  IF Head(s) = " "
             THEN << <<>> >> \o rest
             ELSE << <<Head(s)>> \o Head(rest) >> \o Tail(rest)

RECURSIVE lstrip(_)
lstrip(s) ==
    IF s # <<>> /\ Head(s) \in Whitespace THEN lstrip(Tail(s)) ELSE s

RECURSIVE DigitsVal(_)
DigitsVal(s) ==
    IF s = <<>> THEN 0
    ELSE 10 * DigitsVal(SubSeq(s, 1, Len(s) - 1)) + DigitVal(s[Len(s)])

\* int(s) accepts surrounding whitespace, one optional sign and decimal
\* digits; anything else raises ValueError.
Unsigned(t) == IF t # <<>> /\ Head(t) \in {"+", "-"} THEN Tail(t) ELSE t

DigitsOnly(u) == u # <<>> /\ \A i \in 1..Len(u) : u[i] \in Digits

IntParseable(s) == DigitsOnly(Unsigned(rstrip(lstrip(s))))

SignedVal(t) ==
    IF Head(t) = "-" THEN 0 - DigitsVal(Tail(t))
    ELSE IF Head(t) = "+" THEN DigitsVal(Tail(t))
    ELSE DigitsVal(t)

int(s) == SignedVal(rstrip(lstrip(s)))

(***************************************************************************)
(* sensorRead, applied to the line that ser.readline() returned.           *)
(* The result is [exc |-> "none", full, ir, visible, seconds, gainstr] or  *)
(* [exc |-> "ValueError"] when the tuple unpacking or an int() fails.      *)
(***************************************************************************)
Raise(e) == [exc |-> e]

\* lines 108-114, on the integers that int() returned
Reading(full, ir, time, gainstr) ==
    [exc |-> "none", full |-> full, ir |-> ir, visible |-> full - ir,
     seconds |-> Rat(time, 1000), gainstr |-> gainstr]

\* int() that reads a field that is not a number as 0
intLenient(x) == IF IntParseable(x) THEN int(x) ELSE 0

UnpackLenient(f) ==
    IF Len(f) # 4 THEN Raise("ValueError")
    ELSE Reading(intLenient(f[1]), intLenient(f[2]), intLenient(f[3]), f[4])

sensorReadLenient(lightstr) == UnpackLenient(split(rstrip(lightstr)))

\* unpacking that takes the first four fields and ignores further ones
UnpackLoose(f) ==
    IF Len(f) < 4 THEN Raise("ValueError")
    ELSE IF ~IntParseable(f[1]) THEN Raise("ValueError")
    ELSE IF ~IntParseable(f[2]) THEN Raise("ValueError")
    ELSE IF ~IntParseable(f[3]) THEN Raise("ValueError")
    ELSE Reading(int(f[1]), int(f[2]), int(f[3]), f[4])

\* the tuple assignment of line 107 and the three int() calls, on the
\* fields f that split() returned
Unpack(f) ==
    IF Len(f) # 4 THEN Raise("ValueError")
    ELSE IF ~IntParseable(f[1]) THEN Raise("ValueError")
    ELSE IF ~IntParseable(f[2]) THEN Raise("ValueError")
    ELSE IF ~IntParseable(f[3]) THEN Raise("ValueError")
    ELSE Reading(int(f[1]), int(f[2]), int(f[3]), f[4])

sensorRead(lightstr) == Unpack(split(rstrip(lightstr)))

(***************************************************************************)
(* convertGain: the four branches of the if/elif chain; with no branch     *)
(* taken the return statement reads the unbound local `gain`.              *)
(***************************************************************************)
S48 == <<"4", "8">>
S32 == <<"3", "2">>
S16 == <<"1", "6">>
S0 == <<"0">>

\* convertGain with a final else that takes an unknown code for LOW
convertGainDefault(gainstr, fullval, irval, visval) ==
    IF gainstr = S48
    THEN [exc |-> "none", gain |-> "MAX", full |-> Rat(fullval, 9876),
          ir |-> Rat(irval, 9876), visible |-> Rat(visval, 9876)]
    ELSE IF gainstr = S32
    THEN [exc |-> "none", gain |-> "HIGH", full |-> Rat(fullval, 428),
          ir |-> Rat(irval, 428), visible |-> Rat(visval, 428)]
    ELSE IF gainstr = S16
    THEN [exc |-> "none", gain |-> "MED", full |-> Rat(fullval, 25),
          ir |-> Rat(irval, 25), visible |-> Rat(visval, 25)]
    ELSE [exc |-> "none", gain |-> "LOW", full |-> Rat(fullval, 1),
          ir |-> Rat(irval, 1), visible |-> Rat(visval, 1)]

\* convertGain whose MAX branch leaves the visible value as it came
convertGainVisibleRaw(gainstr, fullval, irval, visval) ==
    IF gainstr = S48
    THEN [exc |-> "none", gain |-> "MAX", full |-> Rat(fullval, 9876),
          ir |-> Rat(irval, 9876), visible |-> Rat(visval, 1)]
    ELSE IF gainstr = S32
    THEN [exc |-> "none", gain |-> "HIGH", full |-> Rat(fullval, 428),
          ir |-> Rat(irval, 428), visible |-> Rat(visval, 428)]
    ELSE IF gainstr = S16
    THEN [exc |-> "none", gain |-> "MED", full |-> Rat(fullval, 25),
          ir |-> Rat(irval, 25), visible |-> Rat(visval, 25)]
    ELSE IF gainstr = S0
    THEN [exc |-> "none", gain |-> "LOW", full |-> Rat(fullval, 1),
          ir |-> Rat(irval, 1), visible |-> Rat(visval, 1)]
    ELSE Raise("UnboundLocalError")

convertGain(gainstr, fullval, irval, visval) ==
    IF gainstr = S48
    THEN [exc |-> "none", gain |-> "MAX", full |-> Rat(fullval, 9876),
          ir |-> Rat(irval, 9876), visible |-> Rat(visval, 9876)]
    ELSE IF gainstr = S32
    THEN [exc |-> "none", gain |-> "HIGH", full |-> Rat(fullval, 428),
          ir |-> Rat(irval, 428), visible |-> Rat(visval, 428)]
    ELSE IF gainstr = S16
    THEN [exc |-> "none", gain |-> "MED", full |-> Rat(fullval, 25),
          ir |-> Rat(irval, 25), visible |-> Rat(visval, 25)]
    ELSE IF gainstr = S0
    THEN [exc |-> "none", gain |-> "LOW", full |-> Rat(fullval, 1),
          ir |-> Rat(irval, 1), visible |-> Rat(visval, 1)]
    ELSE Raise("UnboundLocalError")

(***************************************************************************)
(* The serial stream.  A line is what ser.readline() returns: the text up  *)
(* to and including the newline, or, after the read timeout, what arrived  *)
(* until then (possibly nothing).                                          *)
(***************************************************************************)
LineLow == <<"3", " ", "1", " ", "5", "0", "0", " ", "0", "\n">>
LineMed == <<"5", "0", " ", "2", "0", " ", "9", "0", "0", " ", "1", "6", "\r", "\n">>
LineShort == <<"7", " ", "2", " ", "9", "0", "0", "\n">>
LineNotInt == <<"7", " ", "x", " ", "9", "0", "0", " ", "0", "\n">>
LineBadGain == <<"7", " ", "2", " ", "9", "0", "0", " ", "9", "9", "\n">>
LineEmpty == <<>>
LineHigh == <<"2", "1", "4", " ", "1", "0", "7", " ", "7", "0", "0", " ", "3", "2", "\n">>
LineMax == <<"9", "8", "7", "6", " ", "2", "4", "6", "9", " ", "8", "0", "0", " ", "4", "8", "\n">>

Lines == {LineLow, LineMed, LineShort, LineNotInt, LineBadGain, LineEmpty}

\* well-formed frames, one of each gain level of the sensor
GainLines == {LineLow, LineMed, LineHigh, LineMax}

\* exceptions ser.readline() can raise: loss of the connection, or
\* anything else (an interrupt, an error of the operating system)
ReadlineErrors == {"SerialException", "OtherError"}

\* before the first read of a run
NoLine == [exc |-> "unread", line |-> <<>>]

\* ser.timeout, in seconds
Timeout == 2

\* a line that ends without its newline was cut by the read timeout
TimedOut(line) == line = <<>> \/ line[Len(line)] # "\n"

VARIABLES
    ser,          \* self.ser: "NONE", or "OPEN" once declarePort has set it
    bfull, bir, bvis, bferr, bierr, bverr,     \* the background baseline
    fullvals, irvals, visvals, timevals, gainhist,   \* the sample lists
    pc,           \* "idle", or the position inside read(): "loop", "exit"
    op,           \* the public operation being executed
    now,          \* wall-clock seconds since the run started
    currenttime,  \* local of read()
    endtime,      \* local `end` of read()
    lightstr,     \* what readline() did at the last read: a line or an exception
    nreads,       \* history: number of frame reads begun in this run
    good,         \* history: number of frames of this run decoded and stored
    frames,       \* history: the lines of those frames, in arrival order
    ret,          \* outcome of the last public call, as its caller sees it
    caller,       \* the list objects the caller got from getRecent/getGain
    calls,        \* number of acquisition runs started
    everSet       \* history: setBackground has been called

baseline == <<bfull, bir, bvis, bferr, bierr, bverr>>
buffer == <<fullvals, irvals, visvals, timevals, gainhist>>
locals == <<now, currenttime, endtime, lightstr, nreads, good, frames>>
vars == <<ser, baseline, buffer, pc, op, locals, ret, caller, calls, everSet>>

(***************************************************************************)
(* Outcomes of a call.                                                     *)
(***************************************************************************)
Return(name, v) == [op |-> name, exc |-> "none", val |-> v]
Raised(name, e) == [op |-> name, exc |-> e, val |-> <<>>]
Pending(name) == [op |-> name, exc |-> "pending", val |-> <<>>]

(***************************************************************************)
(* Statistics, as functions of the lists they read.                        *)
(***************************************************************************)
\* sum(xs) / len(xs) for a list that is not empty
Mean(xs) == RDivInt(RSum(xs), Len(xs))

\* average() that answers zero for an empty list
averageOfZero(fulls, irs, viss) ==
    IF Len(fulls) = 0 \/ Len(irs) = 0 \/ Len(viss) = 0
    THEN [exc |-> "none", val |-> <<Zero, Zero, Zero>>]
    ELSE [exc |-> "none", val |-> <<Mean(fulls), Mean(irs), Mean(viss)>>]

\* average(): the first division by len() of an empty list raises
averageOf(fulls, irs, viss) ==
    IF Len(fulls) = 0 \/ Len(irs) = 0 \/ Len(viss) = 0
    THEN Raise("ZeroDivisionError")
    ELSE [exc |-> "none", val |-> <<Mean(fulls), Mean(irs), Mean(viss)>>]

\* the Bessel-corrected deviation of xs around its mean m
Deviation(xs, m) ==
    Sqrt(RDivInt(RSum([i \in 1..Len(xs) |-> Square(RSub(xs[i], m))]),
                 Len(xs) - 1))

\* np.std(xs, ddof = 1): NaN (with a warning, no exception) when
\* len(xs) - 1 <= 0
npstd(xs) == IF Len(xs) - 1 <= 0 THEN NaN ELSE Deviation(xs, Mean(xs))

standardDeviationOf(fulls, irs, viss) ==
    [exc |-> "none", val |-> <<npstd(fulls), npstd(irs), npstd(viss)>>]

\* std / np.sqrt(n) on numpy floats: NaN stays NaN, also for n = 0
DivSqrtN(std, n) ==
    IF std.k = "nan" THEN NaN ELSE Sqrt(RDivInt(Square(std), n))

\* lines 327-331, on the tuple s that standardDeviation() returned
FluctuationOver(s, nfull, nir, nvis) ==
    [exc |-> "none",
     val |-> <<DivSqrtN(s[1], nfull), DivSqrtN(s[2], nir),
               DivSqrtN(s[3], nvis)>>]

fluctuationErrorOf(fulls, irs, viss) ==
    FluctuationOver(standardDeviationOf(fulls, irs, viss).val,
                    Len(fulls), Len(irs), Len(viss))

\* a loop body that keeps the error of the first sample
GainErrorFirst(gain, e) ==
    IF e # <<>> THEN e
    ELSE IF gain = "LOW" THEN <<Rat(1, 2)>>
    ELSE IF gain = "MED" THEN <<Rat(1, 2 * 25)>>
    ELSE IF gain = "HIGH" THEN <<Rat(1, 2 * 428)>>
    ELSE IF gain = "MAX" THEN <<Rat(1, 2 * 9876)>>
    ELSE e

\* the body of the for loop of integerError: e is the value of the locals
\* fullerr, irerr, viserr so far (<<>> while they are unbound)
GainError(gain, e) ==
    IF gain = "LOW" THEN <<Rat(1, 2)>>
    ELSE IF gain = "MED" THEN <<Rat(1, 2 * 25)>>
    ELSE IF gain = "HIGH" THEN <<Rat(1, 2 * 428)>>
    ELSE IF gain = "MAX" THEN <<Rat(1, 2 * 9876)>>
    ELSE e

RECURSIVE GainLoop(_, _)
GainLoop(gains, e) ==
    IF gains = <<>> THEN e
    ELSE GainLoop(Tail(gains), GainError(Head(gains), e))

\* the return statement of integerError reads locals that no iteration has
\* bound when gainhist is empty
IntegerReturn(e) ==
    IF e = <<>> THEN Raise("UnboundLocalError")
    ELSE [exc |-> "none", val |-> <<e[1], e[1], e[1]>>]

integerErrorOf(gains) == IntegerReturn(GainLoop(gains, <<>>))

\* lines 383-387, on what fluctuationError() and integerError() did
TotalOver(f, q) ==
    IF q.exc # "none" THEN q
    ELSE [exc |-> "none",
          val |-> <<Quadrature(f.val[1], q.val[1]),
                    Quadrature(f.val[2], q.val[2]),
                    Quadrature(f.val[3], q.val[3])>>]

totalErrorOf(fulls, irs, viss, gains) ==
    TotalOver(fluctuationErrorOf(fulls, irs, viss), integerErrorOf(gains))

\* line 446, on what average() and totalError() did
GetAverageOver(a, t) ==
    IF a.exc # "none" THEN a
    ELSE IF t.exc # "none" THEN t
    ELSE [exc |-> "none", val |-> a.val \o t.val]

getAverageOf(fulls, irs, viss, gains) ==
    GetAverageOver(averageOf(fulls, irs, viss),
                   totalErrorOf(fulls, irs, viss, gains))

\* the methods, on the lists of the object
average == averageOf(fullvals, irvals, visvals)

standardDeviation == standardDeviationOf(fullvals, irvals, visvals)

fluctuationError == fluctuationErrorOf(fullvals, irvals, visvals)

integerError == integerErrorOf(gainhist)

totalError == totalErrorOf(fullvals, irvals, visvals, gainhist)

getAverage == getAverageOf(fullvals, irvals, visvals, gainhist)

(***************************************************************************)
(* Construction.                                                           *)
(***************************************************************************)
Init ==
    /\ ser = "NONE"
    /\ bfull = Zero /\ bir = Zero /\ bvis = Zero
    /\ bferr = Zero /\ bierr = Zero /\ bverr = Zero
    /\ fullvals = <<>> /\ irvals = <<>> /\ visvals = <<>>
    /\ timevals = <<>> /\ gainhist = <<>>
    /\ pc = "idle" /\ op = "none"
    /\ now = 0 /\ currenttime = 0 /\ endtime = 0
    /\ lightstr = NoLine /\ nreads = 0 /\ good = 0 /\ frames = <<>>
    /\ ret = Return("__init__", <<>>)
    /\ caller = [recent |-> <<>>, gain |-> <<>>]
    /\ calls = 0 /\ everSet = FALSE

(***************************************************************************)
(* The port.                                                               *)
(***************************************************************************)
declarePort ==
    /\ pc = "idle"
    /\ ser' = "OPEN"
    /\ ret' = Return("declarePort", <<>>)
    /\ UNCHANGED <<baseline, buffer, pc, op, locals, caller, calls,
                   everSet>>

(***************************************************************************)
(* read(integratetime), from its call to the first test of the loop.       *)
(* name is the public operation that calls it.  flushInput() fails on the  *)
(* string 'NONE', and can fail on a port when the device is gone; read()   *)
(* has no handler around it.                                               *)
(***************************************************************************)
\* listclear() that forgets the gain history
listclearPartial ==
    /\ fullvals' = <<>>
    /\ irvals' = <<>>
    /\ visvals' = <<>>
    /\ timevals' = <<>>
    /\ gainhist' = gainhist

\* read() without its call of listclear()
listclearMissing == UNCHANGED buffer

listclear ==
    /\ fullvals' = <<>>
    /\ irvals' = <<>>
    /\ visvals' = <<>>
    /\ timevals' = <<>>
    /\ gainhist' = <<>>

readEntry(name, integratetime, flushed) ==
    /\ pc = "idle"
    /\ calls < MaxCalls
    /\ calls' = calls + 1
    /\ everSet' = (everSet \/ name = "setBackground")
    /\ IF ser # "OPEN" \/ ~flushed
       THEN /\ ret' = Raised(name, IF ser = "NONE" THEN "AttributeError"
                                   ELSE "SerialException")
            /\ UNCHANGED <<ser, baseline, buffer, pc, op, locals, caller>>
       ELSE /\ listclear
            /\ now' = 0 /\ currenttime' = 0 /\ endtime' = integratetime
            /\ lightstr' = NoLine /\ nreads' = 0 /\ good' = 0
            /\ frames' = <<>>
            /\ pc' = IF 0 < integratetime THEN "loop" ELSE "exit"
            /\ op' = name
            /\ ret' = Pending(name)
            /\ UNCHANGED <<ser, baseline, caller>>

read ==
    \E d \in 0..MaxDuration, flushed \in BOOLEAN : readEntry("read", d, flushed)

collectData ==
    \E d \in 0..MaxDuration, flushed \in BOOLEAN :
        readEntry("collectData", d, flushed)

setBackground ==
    \E d \in 0..MaxDuration, flushed \in BOOLEAN :
        readEntry("setBackground", d, flushed)

(***************************************************************************)
(* One iteration of the while loop of read().                              *)
(***************************************************************************)
\* the try block up to the appends: sensorRead, then convertGain
Sample(r, g) ==
    IF g.exc # "none" THEN g
    ELSE [exc |-> "none", full |-> g.full, ir |-> g.ir,
          visible |-> g.visible, seconds |-> r.seconds, gain |-> g.gain]

Normalized(r) ==
    IF r.exc # "none" THEN r
    ELSE Sample(r, convertGain(r.gainstr, r.full, r.ir, r.visible))

decode(line) == Normalized(sensorRead(line))

\* except clauses that go on after a lost connection
handlerLenient(exc) ==
    IF exc = "ValueError" THEN "continue"
    ELSE IF exc = "IndexError" THEN "continue"
    ELSE IF exc = "SerialException" THEN "continue"
    ELSE "break"

\* the except clauses of the loop
handler(exc) ==
    IF exc = "ValueError" THEN "continue"
    ELSE IF exc = "IndexError" THEN "continue"
    ELSE IF exc = "SerialException" THEN "break"
    ELSE "break"

\* a loop body that puts the new sample in front of the earlier ones
tryBlockPrepend(io, took, r) ==
    /\ now' = now + took
    /\ lightstr' = io
    /\ nreads' = nreads + 1
    /\ good' = IF r.exc = "none" THEN good + 1 ELSE good
    /\ frames' = IF r.exc = "none" THEN Append(frames, io.line) ELSE frames
    /\ IF r.exc = "none"
       THEN /\ fullvals' = <<r.full>> \o fullvals
            /\ irvals' = <<r.ir>> \o irvals
            /\ visvals' = <<r.visible>> \o visvals
            /\ timevals' = <<r.seconds>> \o timevals
            /\ gainhist' = <<r.gain>> \o gainhist
            /\ currenttime' = now'
            /\ pc' = IF currenttime' < endtime THEN "loop" ELSE "exit"
       ELSE /\ UNCHANGED <<buffer, currenttime>>
            /\ pc' = IF handler(r.exc) = "continue" /\ currenttime < endtime
                     THEN "loop" ELSE "exit"
    /\ UNCHANGED <<ser, baseline, op, endtime, ret, caller, calls, everSet>>

\* the body of the loop: r is the sample, or the exception raised on the
\* way to it
tryBlock(io, took, r) ==
    /\ now' = now + took
    /\ lightstr' = io
    /\ nreads' = nreads + 1
    /\ good' = IF r.exc = "none" THEN good + 1 ELSE good
    /\ frames' = IF r.exc = "none" THEN Append(frames, io.line) ELSE frames
    /\ IF r.exc = "none"
       THEN /\ fullvals' = Append(fullvals, r.full)
            /\ irvals' = Append(irvals, r.ir)
            /\ visvals' = Append(visvals, r.visible)
            /\ timevals' = Append(timevals, r.seconds)
            /\ gainhist' = Append(gainhist, r.gain)
            /\ currenttime' = now'
            /\ pc' = IF currenttime' < endtime THEN "loop" ELSE "exit"
       ELSE /\ UNCHANGED <<buffer, currenttime>>
            /\ pc' = IF handler(r.exc) = "continue" /\ currenttime < endtime
                     THEN "loop" ELSE "exit"
    /\ UNCHANGED <<ser, baseline, op, endtime, ret, caller, calls, everSet>>

\* the iteration, given what readline() did (a line, or an exception) and
\* how long it blocked
iteration(io, took) ==
    tryBlock(io, took,
             IF io.exc # "none" THEN Raise(io.exc) ELSE decode(io.line))

readFrame ==
    /\ pc = "loop"
    /\ nreads < MaxReads
    /\ \E line \in Lines :
         \E took \in (IF TimedOut(line) THEN {Timeout} ELSE {0, 1}) :
            iteration([exc |-> "none", line |-> line], took)

readFails ==
    /\ pc = "loop"
    /\ nreads < MaxReads
    /\ \E e \in ReadlineErrors, took \in {0, 1} :
            iteration([exc |-> e, line |-> <<>>], took)

(***************************************************************************)
(* After the loop: read() returns, and its caller goes on.                 *)
(***************************************************************************)
\* the locals of read() are gone once it has returned
leave ==
    /\ pc' = "idle"
    /\ now' = 0 /\ currenttime' = 0 /\ endtime' = 0
    /\ lightstr' = NoLine /\ nreads' = 0
    /\ UNCHANGED <<op, good, frames>>

readReturn ==
    /\ pc = "exit" /\ op = "read"
    /\ leave
    /\ ret' = Return("read", <<>>)
    /\ UNCHANGED <<ser, baseline, buffer, caller, calls, everSet>>

\* subtraction loops that take the baseline off twice
subtractTwice(xs, b) == [i \in 1..Len(xs) |-> RSub(RSub(xs[i], b), b)]

\* xs[i] -= b for every i
subtract(xs, b) == [i \in 1..Len(xs) |-> RSub(xs[i], b)]

\* a call that returns None unless r is a raised exception
finished(name, r) ==
    IF r.exc # "none" THEN Raised(name, r.exc) ELSE Return(name, <<>>)

\* collectData with a fourth subtraction loop, over the timestamps
collectDataReturnTimes ==
    /\ pc = "exit" /\ op = "collectData"
    /\ fullvals' = subtract(fullvals, bfull)
    /\ irvals' = subtract(irvals, bir)
    /\ visvals' = subtract(visvals, bvis)
    /\ timevals' = subtract(timevals, bfull)
    /\ leave
    /\ ret' = finished("collectData",
                       getAverageOf(fullvals', irvals', visvals', gainhist))
    /\ UNCHANGED <<ser, baseline, gainhist, caller, calls, everSet>>

\* collectData that forgets the baseline once it has subtracted it
collectDataReturnRebase ==
    /\ pc = "exit" /\ op = "collectData"
    /\ fullvals' = subtract(fullvals, bfull)
    /\ irvals' = subtract(irvals, bir)
    /\ visvals' = subtract(visvals, bvis)
    /\ leave
    /\ ret' = finished("collectData",
                       getAverageOf(fullvals', irvals', visvals', gainhist))
    /\ bfull' = Zero /\ bir' = Zero /\ bvis' = Zero
    /\ UNCHANGED <<ser, bferr, bierr, bverr, timevals, gainhist, caller,
                   calls, everSet>>

\* the rest of collectData: the three subtraction loops, then printAverage,
\* which calls getAverage before it prints
collectDataReturn ==
    /\ pc = "exit" /\ op = "collectData"
    /\ fullvals' = subtract(fullvals, bfull)
    /\ irvals' = subtract(irvals, bir)
    /\ visvals' = subtract(visvals, bvis)
    /\ leave
    /\ ret' = finished("collectData",
                       getAverageOf(fullvals', irvals', visvals', gainhist))
    /\ UNCHANGED <<ser, baseline, timevals, gainhist, caller, calls, everSet>>

\* assignments that fall back to zero means when average() fails
assignFallback(a, t) ==
    IF a.exc # "none"
    THEN /\ ret' = Raised("setBackground", a.exc)
         /\ bfull' = Zero /\ bir' = Zero /\ bvis' = Zero
         /\ UNCHANGED <<bferr, bierr, bverr>>
    ELSE /\ bfull' = a.val[1] /\ bir' = a.val[2] /\ bvis' = a.val[3]
         /\ IF t.exc # "none"
            THEN /\ ret' = Raised("setBackground", t.exc)
                 /\ UNCHANGED <<bferr, bierr, bverr>>
            ELSE /\ bferr' = t.val[1] /\ bierr' = t.val[2]
                 /\ bverr' = t.val[3]
                 /\ ret' = Return("setBackground", <<>>)

\* the two tuple assignments of setBackground, on what average() and
\* totalError() did
assign(a, t) ==
    IF a.exc # "none"
    THEN /\ ret' = Raised("setBackground", a.exc)
         /\ UNCHANGED baseline
    ELSE /\ bfull' = a.val[1] /\ bir' = a.val[2] /\ bvis' = a.val[3]
         /\ IF t.exc # "none"
            THEN /\ ret' = Raised("setBackground", t.exc)
                 /\ UNCHANGED <<bferr, bierr, bverr>>
            ELSE /\ bferr' = t.val[1] /\ bierr' = t.val[2]
                 /\ bverr' = t.val[3]
                 /\ ret' = Return("setBackground", <<>>)

\* setBackground that takes the present baseline off the samples, as
\* collectData does, before it averages them
setBackgroundReturnSubtracting ==
    /\ pc = "exit" /\ op = "setBackground"
    /\ leave
    /\ assign(averageOf(subtract(fullvals, bfull), subtract(irvals, bir),
                        subtract(visvals, bvis)),
              totalError)
    /\ UNCHANGED <<ser, buffer, caller, calls, everSet>>

\* the rest of setBackground
setBackgroundReturn ==
    /\ pc = "exit" /\ op = "setBackground"
    /\ leave
    /\ assign(average, totalError)
    /\ UNCHANGED <<ser, buffer, caller, calls, everSet>>

\* resetBackground() that leaves one of the six values
resetBackgroundPartial ==
    /\ pc = "idle"
    /\ bfull' = Zero /\ bir' = Zero /\ bvis' = Zero
    /\ bferr' = Zero /\ bierr' = Zero /\ bverr' = bverr
    /\ ret' = Return("resetBackground", <<>>)
    /\ UNCHANGED <<ser, buffer, pc, op, locals, caller, calls,
                   everSet>>

resetBackground ==
    /\ pc = "idle"
    /\ bfull' = Zero /\ bir' = Zero /\ bvis' = Zero
    /\ bferr' = Zero /\ bierr' = Zero /\ bverr' = Zero
    /\ ret' = Return("resetBackground", <<>>)
    /\ UNCHANGED <<ser, buffer, pc, op, locals, caller, calls,
                   everSet>>

(***************************************************************************)
(* Statistics queries and getters, called between two runs.                *)
(***************************************************************************)
outcome(name, r) ==
    IF r.exc # "none" THEN Raised(name, r.exc) ELSE Return(name, r.val)

\* a query that empties the buffer it has read
queryConsuming(name, r) ==
    /\ pc = "idle"
    /\ ret' = outcome(name, r)
    /\ listclear
    /\ UNCHANGED <<ser, baseline, pc, op, locals, caller, calls, everSet>>

query(name, r) ==
    /\ pc = "idle"
    /\ ret' = outcome(name, r)
    /\ UNCHANGED <<ser, baseline, buffer, pc, op, locals, caller,
                   calls, everSet>>

callAverage == query("average", average)

callStandardDeviation == query("standardDeviation", standardDeviation)

callFluctuationError == query("fluctuationError", fluctuationError)

callIntegerError == query("integerError", integerError)

callTotalError == query("totalError", totalError)

callGetAverage == query("getAverage", getAverage)

getBackground ==
    query("getBackground",
          [exc |-> "none", val |-> <<bfull, bferr, bir, bierr, bvis, bverr>>])

\* The getters of the lists return the list objects themselves.  The
\* attributes are bound once, in __init__, so an object is named by its
\* attribute, and Deref gives what it holds now.
Deref(ref) ==
    CASE ref = "fullvals" -> fullvals
      [] ref = "irvals" -> irvals
      [] ref = "visvals" -> visvals
      [] ref = "timevals" -> timevals
      [] ref = "gainhist" -> gainhist

View(refs) == [i \in 1..Len(refs) |-> Deref(refs[i])]

getRecentValue == <<"fullvals", "irvals", "visvals", "timevals">>

getGainValue == <<"gainhist">>

getRecent ==
    /\ pc = "idle"
    /\ ret' = Return("getRecent", <<>>)
    /\ caller' = [caller EXCEPT !.recent = getRecentValue]
    /\ UNCHANGED <<ser, baseline, buffer, pc, op, locals, calls, everSet>>

getGain ==
    /\ pc = "idle"
    /\ ret' = Return("getGain", <<>>)
    /\ caller' = [caller EXCEPT !.gain = getGainValue]
    /\ UNCHANGED <<ser, baseline, buffer, pc, op, locals, calls, everSet>>

(***************************************************************************)
(* The program.                                                            *)
(***************************************************************************)
Next ==
    \/ declarePort
    \/ read
    \/ collectData
    \/ setBackground
    \/ readFrame
    \/ readFails
    \/ readReturn
    \/ collectDataReturn
    \/ setBackgroundReturn
    \/ resetBackground
    \/ callAverage
    \/ callStandardDeviation
    \/ callFluctuationError
    \/ callIntegerError
    \/ callTotalError
    \/ callGetAverage
    \/ getBackground
    \/ getRecent
    \/ getGain

Spec == Init /\ [][Next]_vars

(***************************************************************************)
(* sensorRead alone: one call on a freshly opened port, on a line put      *)
(* together from up to MaxFields fields, single spaces between them, and   *)
(* a line ending.                                                          *)
(***************************************************************************)
ParseFields == {<<"5", "0">>, <<"-", "3">>, <<"+", "4">>, <<"x">>, <<>>}

Endings == {<<"\n">>, <<"\r", "\n">>, <<>>}

FieldSeqs == UNION {[1..k -> ParseFields] : k \in 0..MaxFields}

RECURSIVE Join(_)
Join(fs) ==
    IF fs = <<>> THEN <<>>
    ELSE IF Len(fs) = 1 THEN fs[1]
    ELSE fs[1] \o <<" ">> \o Join(Tail(fs))

\* line 106: the line that ser.readline() returns to sensorRead
readline ==
    /\ pc = "idle" /\ ser = "OPEN" /\ lightstr = NoLine
    /\ \E fs \in FieldSeqs, e \in Endings :
            lightstr' = [exc |-> "none", line |-> Join(fs) \o e]
    /\ ret' = Pending("sensorRead")
    /\ UNCHANGED <<ser, baseline, buffer, pc, op, now, currenttime, endtime,
                   nreads, good, frames, caller, calls, everSet>>

\* what the caller of sensorRead gets for the reading r
sensorReadOutcome(r) ==
    IF r.exc # "none" THEN Raised("sensorRead", r.exc)
    ELSE Return("sensorRead",
                <<r.full, r.ir, r.visible, r.seconds, r.gainstr>>)

\* lines 107-114
callSensorRead ==
    /\ pc = "idle" /\ ret = Pending("sensorRead")
    /\ ret' = sensorReadOutcome(sensorRead(lightstr.line))
    /\ UNCHANGED <<ser, baseline, buffer, pc, op, locals, caller, calls,
                   everSet>>

NextParse ==
    \/ declarePort
    \/ readline
    \/ callSensorRead

SpecParse == Init /\ [][NextParse]_vars

(***************************************************************************)
(* The program on a device that sends well-formed frames of all four gain  *)
(* levels: acquisition runs of read(), and the quantization error of the   *)
(* buffer they leave.                                                      *)
(***************************************************************************)
gainFrame ==
    /\ pc = "loop"
    /\ nreads < MaxReads
    /\ \E line \in GainLines, took \in {0, 1} :
            iteration([exc |-> "none", line |-> line], took)

NextGains ==
    \/ declarePort
    \/ read
    \/ gainFrame
    \/ readReturn
    \/ callIntegerError

SpecGains == Init /\ [][NextGains]_vars

(***************************************************************************)
(* Properties.                                                             *)
(***************************************************************************)
\* a step of the loop that begins a frame read
FrameRead == pc = "loop" /\ nreads' = nreads + 1

\* a line whose field count is not four, or whose full, ir or time field
\* is not an integer
Malformed(line) ==
    \E f \in {split(rstrip(line))} :
        \/ Len(f) # 4
        \/ \E i \in 1..3 : ~IntParseable(f[i])

\* a well-formed line whose gain code is none of '0', '16', '32', '48'
UnknownGain(line) ==
    /\ ~Malformed(line)
    /\ split(rstrip(line))[4] \notin {S0, S16, S32, S48}

\* C1: once the deadline of read(d) has passed, a frame read that the loop
\* still begins is its last one, whatever that read returns.
C1_ExitsAtDeadline ==
    [][(FrameRead /\ now >= endtime) => pc' = "exit"]_vars

\* C2: a frame read that fails with a lost connection or another unexpected
\* exception ends the loop with the buffer as the earlier reads left it
\* (one sample per frame decoded before), and read() then returns normally.
C2_FatalKeepsPartial ==
    [][/\ (FrameRead /\ lightstr'.exc \in ReadlineErrors) =>
            /\ buffer' = buffer
            /\ Len(fullvals') = good'
            /\ pc' = "exit"
       /\ (pc = "exit" /\ op = "read") =>
            /\ buffer' = buffer
            /\ pc' = "idle"
            /\ ret' = Return("read", <<>>)]_vars

C2_Witness ==
    /\ pc = "exit" /\ op = "read" /\ lightstr.exc = "SerialException"
    /\ nreads = 2 /\ Len(fullvals) = 1

\* C3: a malformed frame changes none of the five lists, and the loop goes
\* on to the next frame read.
C3_MalformedDropped ==
    [][(FrameRead /\ lightstr'.exc = "none" /\ Malformed(lightstr'.line)) =>
            (buffer' = buffer /\ pc' = "loop")]_vars

C3_Witness ==
    /\ pc = "loop" /\ lightstr = [exc |-> "none", line |-> LineNotInt]
    /\ nreads = 2 /\ Len(fullvals) = 1

\* C4: a frame with an unknown gain code fails with an exception that is
\* not the one of a malformed frame, and nothing is appended for it: no
\* sample, and no gain label taken over from an earlier frame.
C4_UnknownGainRaises ==
    [][(FrameRead /\ lightstr'.exc = "none" /\ UnknownGain(lightstr'.line)) =>
            /\ decode(lightstr'.line).exc \notin {"none", "ValueError"}
            /\ buffer' = buffer]_vars

C4_Witness ==
    /\ lightstr = [exc |-> "none", line |-> LineBadGain]
    /\ nreads = 2 /\ Len(gainhist) = 1

\* C5: the five lists have the same length in every state, so at every
\* observation point.
C5_SameLength ==
    /\ Len(irvals) = Len(fullvals)
    /\ Len(visvals) = Len(fullvals)
    /\ Len(timevals) = Len(fullvals)
    /\ Len(gainhist) = Len(fullvals)

C5_Witness ==
    /\ pc = "idle" /\ calls = 2
    /\ ret.op = "collectData" /\ ret.exc = "none"
    /\ bfull # Zero /\ Len(gainhist) = 1

\* C6: once a run has entered read(), the buffer holds the samples of that
\* run only: each list is as long as the number of frames the run decoded.
C6_ClearedAtEntry ==
    /\ Len(fullvals) = good
    /\ Len(irvals) = good
    /\ Len(visvals) = good
    /\ Len(timevals) = good
    /\ Len(gainhist) = good

C6_Witness ==
    /\ pc = "exit" /\ calls = 2 /\ bfull # Zero
    /\ nreads = 1 /\ Len(fullvals) = 0

\* C7: average and getAverage on an empty buffer raise, and return nothing.
C7_MeanOfEmptyRaises ==
    (pc = "idle" /\ ret.op \in {"average", "getAverage"} /\ Len(fullvals) = 0)
        => (ret.exc = "ZeroDivisionError" /\ ret.val = <<>>)

C7_Witness ==
    /\ ret = Raised("getAverage", "ZeroDivisionError")
    /\ calls = 1 /\ Len(fullvals) = 0

\* C8: standardDeviation, fluctuationError, totalError and getAverage raise
\* on a buffer of fewer than two samples.
C8_DeviationNeedsTwo ==
    (/\ pc = "idle"
     /\ ret.op \in {"standardDeviation", "fluctuationError", "totalError",
                    "getAverage"}
     /\ Len(fullvals) < 2)
        => ret.exc \notin {"none", "pending"}

\* C9: a list of samples that the caller got from getRecent or getGain
\* after a run still holds those samples when the next call has started:
\* no call on the idle object changes what a retrieved list holds.
Refs == {"fullvals", "irvals", "visvals", "timevals", "gainhist"}

Held(ref) ==
    \/ \E i \in 1..Len(caller.recent) : caller.recent[i] = ref
    \/ \E i \in 1..Len(caller.gain) : caller.gain[i] = ref

C9_RetrievedKept ==
    [][\A ref \in Refs :
            (pc = "idle" /\ Held(ref) /\ Deref(ref) # <<>>)
                => Deref(ref)' = Deref(ref)]_vars

\* C10: the six baseline values are zero until setBackground is called for
\* the first time, and are zero after resetBackground.
Unset ==
    /\ bfull = Zero /\ bir = Zero /\ bvis = Zero
    /\ bferr = Zero /\ bierr = Zero /\ bverr = Zero

C10_UnsetUntilSet ==
    (~everSet \/ ret.op = "resetBackground") => Unset

C10_Witness ==
    /\ ret.op = "resetBackground" /\ op = "setBackground"
    /\ good = 2 /\ calls = 1 /\ everSet

\* C11: the baseline changes only in the tail of setBackground and in
\* resetBackground: no step of read or collectData, no statistics query and
\* no getter changes any of the six values, whether the run ends well or in
\* a failure.
C11_OnlySetAndReset ==
    [][(baseline' # baseline) =>
            \/ (pc = "exit" /\ op = "setBackground")
            \/ (pc = "idle" /\ ret'.op = "resetBackground")]_vars

C11_Witness ==
    /\ pc = "idle" /\ ret = Raised("collectData", "ZeroDivisionError")
    /\ lightstr = NoLine /\ good = 0 /\ bfull # Zero /\ bferr # Zero

\* the normalized samples of the frames this run decoded, as they were
\* appended
RawFull == [i \in 1..Len(frames) |-> decode(frames[i]).full]

RawIr == [i \in 1..Len(frames) |-> decode(frames[i]).ir]

RawVis == [i \in 1..Len(frames) |-> decode(frames[i]).visible]

RawTime == [i \in 1..Len(frames) |-> decode(frames[i]).seconds]

RawGain == [i \in 1..Len(frames) |-> decode(frames[i]).gain]

\* the baseline holds the means a and the errors t
Captured(a, t) ==
    /\ a.exc = "none" /\ t.exc = "none"
    /\ <<bfull, bir, bvis>> = a.val
    /\ <<bferr, bierr, bverr>> = t.val

\* C12: when setBackground has returned normally, the baseline is the mean
\* and the combined error of the unsubtracted samples of the frames of its
\* own run, a function of those frames alone: neither the baseline nor the
\* buffer of before the call enters it.
C12_CaptureFromOwnRun ==
    (pc = "idle" /\ ret = Return("setBackground", <<>>)) =>
        Captured(averageOf(RawFull, RawIr, RawVis),
                 totalErrorOf(RawFull, RawIr, RawVis, RawGain))

C12_Witness ==
    /\ pc = "idle" /\ ret = Return("setBackground", <<>>)
    /\ calls = 2 /\ frames = <<LineLow, LineMed>> /\ bferr.k = "hyp"

\* every entry of xs is the entry of raw at the same place, less b
Lowered(xs, raw, b) ==
    /\ Len(xs) = Len(raw)
    /\ \A i \in 1..Len(xs) : xs[i] = RSub(raw[i], b)

\* C13: when collectData has returned from a run that is not empty, every
\* sample of the buffer is the normalized sample of its frame less the
\* baseline mean of its channel, taken off once, and the mean of each
\* channel is the mean of the unsubtracted samples less that baseline mean.
C13_SubtractedOnce ==
    (pc = "idle" /\ ret = Return("collectData", <<>>) /\ good > 0) =>
        /\ Lowered(fullvals, RawFull, bfull)
        /\ Lowered(irvals, RawIr, bir)
        /\ Lowered(visvals, RawVis, bvis)
        /\ average.exc = "none"
        /\ average.val = <<RSub(Mean(RawFull), bfull), RSub(Mean(RawIr), bir),
                           RSub(Mean(RawVis), bvis)>>

C13_Witness ==
    /\ pc = "idle" /\ ret = Return("collectData", <<>>)
    /\ frames = <<LineMed, LineLow>> /\ bfull # Zero /\ bir # Zero

\* the multiplier of a gain level
Multiplier(gain) ==
    CASE gain = "LOW" -> 1
      [] gain = "MED" -> 25
      [] gain = "HIGH" -> 428
      [] gain = "MAX" -> 9876

\* 0.5 / m
HalfOver(m) == Rat(1, 2 * m)

Thrice(e) == <<e, e, e>>

\* C14: on a buffer that is not empty integerError returns, for each of the
\* three channels, 0.5 divided by the multiplier of the gain level of the
\* sample appended last, whatever the gain levels of the samples before it.
C14_LastGainDecides ==
    (pc = "idle" /\ ret.op = "integerError" /\ gainhist # <<>>) =>
        ret = Return("integerError",
                     Thrice(HalfOver(Multiplier(gainhist[Len(gainhist)]))))

C14_Witness ==
    /\ pc = "idle" /\ ret.op = "integerError" /\ ret.exc = "none"
    /\ gainhist = <<"MAX", "HIGH">>

\* the level of a valid gain code
Level(gainstr) ==
    CASE gainstr = S0 -> "LOW"
      [] gainstr = S16 -> "MED"
      [] gainstr = S32 -> "HIGH"
      [] gainstr = S48 -> "MAX"

\* what the table gives for the raw reading r: the level of its gain code,
\* and its three values divided by the multiplier m of that level
TableOver(r, m) ==
    [exc |-> "none", gain |-> Level(r.gainstr), full |-> Rat(r.full, m),
     ir |-> Rat(r.ir, m), visible |-> Rat(r.visible, m)]

Table(r) == TableOver(r, Multiplier(Level(r.gainstr)))

\* the i-th sample of the buffer is the conversion c
StoredAt(i, c) ==
    /\ gainhist[i] = c.gain /\ fullvals[i] = c.full
    /\ irvals[i] = c.ir /\ visvals[i] = c.visible

\* C15: for a frame of each of the four valid gain codes convertGain
\* returns what the table '0' LOW 1, '16' MED 25, '32' HIGH 428,
\* '48' MAX 9876 gives for its arguments, and that is what the buffer
\* holds for the frame, whatever the object held before.
C15_TableConversion ==
    /\ Len(gainhist) = Len(frames)
    /\ \A i \in 1..Len(frames) :
         \E r \in {sensorRead(frames[i])} :
            /\ r.gainstr \in {S0, S16, S32, S48}
            /\ convertGain(r.gainstr, r.full, r.ir, r.visible) = Table(r)
            /\ StoredAt(i, Table(r))

C15_Witness ==
    /\ pc = "exit" /\ frames = <<LineMax, LineHigh>> /\ Len(visvals) = 2

\* the places of the spaces of t, and the k-th of them from the left
\* (0 before the first, Len(t) + 1 after the last)
Spaces(t) == {i \in 1..Len(t) : t[i] = " "}

SpaceAt(t, k) ==
    IF k = 0 THEN 0
    ELSE IF k > Cardinality(Spaces(t)) THEN Len(t) + 1
    ELSE CHOOSE i \in Spaces(t) :
            Cardinality({j \in Spaces(t) : j < i}) = k - 1

\* the k-th field of t: what stands between two neighbouring spaces
FieldAt(t, k) == SubSeq(t, SpaceAt(t, k - 1) + 1, SpaceAt(t, k) - 1)

\* an optional sign and decimal digits, at least one
IsInteger(f) ==
    \E u \in {IF f # <<>> /\ f[1] \in {"+", "-"} THEN Tail(f) ELSE f} :
        u # <<>> /\ \A i \in 1..Len(u) : u[i] \in Digits

\* four fields, single spaces between them, the first three integers
WellFormed(t) ==
    /\ Cardinality(Spaces(t)) = 3
    /\ \A k \in 1..3 : IsInteger(FieldAt(t, k))

\* what sensorRead returns for the integers full, ir, time and the gain field
Expected(full, ir, time, gainstr) ==
    Return("sensorRead", <<full, ir, full - ir, Rat(time, 1000), gainstr>>)

\* the outcome o is the one of sensorRead on the stripped line t
Exact(t, o) ==
    IF WellFormed(t)
    THEN o = Expected(int(FieldAt(t, 1)), int(FieldAt(t, 2)),
                      int(FieldAt(t, 3)), FieldAt(t, 4))
    ELSE o = Raised("sensorRead", "ValueError")

\* C16: sensorRead returns for exactly the lines that, less their line
\* ending and trailing whitespace, are four single-space-separated fields
\* whose first three are integers, with visible = full - ir and the gain
\* field as it stands in the line; for every other line (too few or too many
\* fields, the empty line, a field that is no integer) it raises ValueError.
C16_ExactlyWellFormed ==
    (ret.op = "sensorRead" /\ ret.exc # "pending") =>
        Exact(rstrip(lightstr.line), ret)

C16_Witness ==
    /\ lightstr.line = Join(<< <<"5", "0">>, <<"-", "3">>, <<"5", "0">>, <<"x">> >>)
                            \o <<"\r", "\n">>
    /\ ret = Return("sensorRead", <<50, -3, 53, Rat(1, 20), <<"x">> >>)

\* the step puts the sample s at the end of each of the five lists
Appends(s) ==
    /\ fullvals' = Append(fullvals, s.full)
    /\ irvals' = Append(irvals, s.ir)
    /\ visvals' = Append(visvals, s.visible)
    /\ timevals' = Append(timevals, s.seconds)
    /\ gainhist' = Append(gainhist, s.gain)

\* a step that enters the loop of a new run, or passes it by
RunStarts == pc = "idle" /\ pc' # "idle"

\* b is a with nothing, or with something appended
Extends(a, b) == Len(a) <= Len(b) /\ SubSeq(b, 1, Len(a)) = a

\* C17: from the entry of a run until the next run starts no step removes
\* or moves an entry of the five lists (a step appends at most, and the
\* subtraction of collectData keeps every entry at its place), and every
\* frame that read() decodes puts its sample behind the samples of the
\* frames decoded before it, so that the i-th entry of each list is the
\* sample of the i-th decoded frame.
C17_AppendOnly ==
    [][/\ ~RunStarts =>
            /\ Extends(timevals, timevals')
            /\ Extends(gainhist, gainhist')
            /\ IF pc = "exit" /\ op = "collectData"
               THEN /\ Len(fullvals') = Len(fullvals)
                    /\ Len(irvals') = Len(irvals)
                    /\ Len(visvals') = Len(visvals)
               ELSE /\ Extends(fullvals, fullvals')
                    /\ Extends(irvals, irvals')
                    /\ Extends(visvals, visvals')
       /\ (pc = "loop" /\ good' # good) =>
            /\ good' = good + 1 /\ Len(fullvals) = good
            /\ frames' = Append(frames, lightstr'.line)
            /\ Appends(decode(lightstr'.line))
       /\ (pc = "loop" /\ good' = good) => buffer' = buffer]_vars

C17_Witness ==
    /\ pc = "loop" /\ frames = <<LineMed, LineLow>>
    /\ timevals = <<Rat(9, 10), Rat(1, 2)>> /\ gainhist = <<"MED", "LOW">>

QueryNames ==
    {"average", "standardDeviation", "fluctuationError", "integerError",
     "totalError", "getAverage", "getBackground", "getRecent", "getGain"}

\* C18: a statistics query or a getter changes neither the buffer nor the
\* baseline, and a query that follows the same query with no other call in
\* between returns the same result.
C18_QueriesStoreNothing ==
    [][(pc = "idle" /\ ret'.op \in QueryNames) =>
            /\ buffer' = buffer
            /\ baseline' = baseline
            /\ (ret.op = ret'.op => ret' = ret)]_vars

C18_Witness ==
    /\ pc = "idle" /\ ret.op = "getAverage" /\ ret.exc = "none"
    /\ frames = <<LineLow, LineMed>> /\ bfull # Zero

\* the step leaves the means a and the errors t in the baseline
Captures(a, t) ==
    /\ a.exc = "none" /\ t.exc = "none"
    /\ <<bfull', bir', bvis'>> = a.val
    /\ <<bferr', bierr', bverr'>> = t.val

\* C19: when setBackground returns, either all six baseline values are
\* those of the run it executed and it returns normally, or none of them has
\* changed and it raises; the latter whenever the run stored no sample.
\* collectData raises after a run without samples, and a call that fails
\* before its run starts leaves the baseline alone as well.
C19_AllOrNothing ==
    [][/\ (pc = "exit" /\ op = "setBackground") =>
            IF good = 0
            THEN /\ baseline' = baseline
                 /\ ret' = Raised("setBackground", "ZeroDivisionError")
            ELSE /\ Captures(averageOf(RawFull, RawIr, RawVis),
                             totalErrorOf(RawFull, RawIr, RawVis, RawGain))
                 /\ ret' = Return("setBackground", <<>>)
       /\ (pc = "exit" /\ op = "collectData" /\ good = 0) =>
            /\ baseline' = baseline
            /\ ret' = Raised("collectData", "ZeroDivisionError")
       /\ (pc = "idle" /\ pc' = "idle" /\ ret'.op = "setBackground") =>
            /\ baseline' = baseline
            /\ ret'.exc \notin {"none", "pending"}]_vars

C19_Witness ==
    /\ pc = "idle" /\ ret = Raised("setBackground", "ZeroDivisionError")
    /\ good = 0 /\ calls = 2 /\ bfull # Zero /\ bferr.k = "hyp"

\* C20: the step of collectData that follows its acquisition loop (the
\* three subtraction loops) leaves the timestamps, the gain labels, the
\* length of every list and the baseline as the loop left them.
C20_SubtractionFrame ==
    [][(pc = "exit" /\ op = "collectData") =>
            /\ timevals' = timevals
            /\ gainhist' = gainhist
            /\ Len(fullvals') = Len(fullvals)
            /\ Len(irvals') = Len(irvals)
            /\ Len(visvals') = Len(visvals)
            /\ baseline' = baseline]_vars

C20_Witness ==
    /\ pc = "idle" /\ ret = Return("collectData", <<>>)
    /\ frames = <<LineLow, LineLow>> /\ fullvals # RawFull
    /\ timevals = RawTime /\ gainhist = RawGain

====
